---- MODULE Spec2Model ----
(***************************************************************************)
(* A model of embedmd: the document scanner (process and its states), the  *)
(* inline command parser (parseCommand, fields), the content extractor     *)
(* (extract) and the command runner (embedder.runCommand).                 *)
(*                                                                         *)
(* Text is modelled as a sequence of one-character strings, so that the    *)
(* byte-level operations of the code (prefix tests, slicing, trimming,     *)
(* splitting into lines) are computed and not assumed.                     *)
(***************************************************************************)
EXTENDS Naturals, Integers, Sequences, FiniteSets, TLC

(***************************************************************************)
(* Bounds of the model.                                                    *)
(***************************************************************************)
MaxLines == 3
MaxContent == 3
MaxTokens == 4

(***************************************************************************)
(* Go string primitives (package strings / bytes), 0-based like the code.  *)
(***************************************************************************)
Min(a, b) == IF a < b THEN a ELSE b

\* s[lo:hi] of Go, for 0 <= lo <= hi <= len(s)
Slice(s, lo, hi) == SubSeq(s, lo + 1, hi)

\* s[lo:] of Go, for 0 <= lo <= len(s)
From(s, lo) == SubSeq(s, lo + 1, Len(s))

HasPrefix(s, p) == Len(s) >= Len(p) /\ SubSeq(s, 1, Len(p)) = p

HasSuffix(s, p) == Len(s) >= Len(p) /\ SubSeq(s, Len(s) - Len(p) + 1, Len(s)) = p

\* the least element of a set of offsets, or -1 if there is none
First(hits) == IF hits = {} THEN -1 ELSE CHOOSE i \in hits : \A j \in hits : i <= j

\* strings.Index / bytes.Index: offset of the first occurrence of p in s, or -1
Index(s, p) == First({i \in 0..(Len(s) - Len(p)) : Slice(s, i, i + Len(p)) = p})

\* strings.IndexByte
IndexByte(s, c) == Index(s, <<c>>)

\* the white space of unicode.IsSpace that the model's alphabets contain
Space == {" ", "\t", "\n", "\r"}

RECURSIVE TrimLeft(_)
TrimLeft(s) == IF s # <<>> /\ Head(s) \in Space THEN TrimLeft(Tail(s)) ELSE s

RECURSIVE TrimRight(_)
TrimRight(s) ==
    IF s # <<>> /\ s[Len(s)] \in Space THEN TrimRight(SubSeq(s, 1, Len(s) - 1)) ELSE s

\* strings.TrimSpace / bytes.TrimSpace
TrimSpace(s) == TrimRight(TrimLeft(s))

\* strings.ReplaceAll for a non-empty old
RECURSIVE ReplaceAll(_, _, _)
ReplaceAll(s, old, new) ==
    IF s = <<>> THEN <<>>
    ELSE IF HasPrefix(s, old) THEN new \o ReplaceAll(From(s, Len(old)), old, new)
    ELSE <<Head(s)>> \o ReplaceAll(Tail(s), old, new)

\* bytes.TrimPrefix / bytes.TrimSuffix
TrimPrefix(s, p) == IF HasPrefix(s, p) THEN From(s, Len(p)) ELSE s

TrimSuffix(s, p) == IF HasSuffix(s, p) THEN Slice(s, 0, Len(s) - Len(p)) ELSE s

\* strings.Join(lines, "\n")
RECURSIVE Join(_)
Join(ls) ==
    IF ls = <<>> THEN <<>>
    ELSE IF Len(ls) = 1 THEN ls[1]
    ELSE ls[1] \o <<"\n">> \o Join(Tail(ls))

\* fmt.Fprintln(out, line): the line and a newline
Ln(l) == l \o <<"\n">>

\* bufio.ScanLines' dropCR: one trailing carriage return is not part of the line
DropCR(l) == IF l # <<>> /\ l[Len(l)] = "\r" THEN SubSeq(l, 1, Len(l) - 1) ELSE l

\* The tokens bufio.Scanner yields with the default split function ScanLines:
\* the text is cut at each newline, a last unterminated line is a token if it
\* is not empty, and every token loses one trailing carriage return.
RECURSIVE ScanLines(_)
\* b is not empty and its first newline is at offset i
scanLinesAt(b, i) ==
    IF i < 0 THEN <<DropCR(b)>>
    ELSE <<DropCR(Slice(b, 0, i))>> \o ScanLines(From(b, i + 1))

ScanLines(b) == IF b = <<>> THEN <<>> ELSE scanLinesAt(b, IndexByte(b, "\n"))

(***************************************************************************)
(* The command (command.go) and the inline command parser.                 *)
(***************************************************************************)
typePlain == "plain"

typeCode == "code"

\* a *string: nil, or a pointer to the string s
NilStr == [nil |-> TRUE, s |-> <<>>]

Ptr(s) == [nil |-> FALSE, s |-> s]

\* the zero value of the struct command
ZeroCommand ==
    [Path |-> <<>>, Lang |-> <<>>, Type |-> "", Start |-> NilStr, End |-> NilStr,
     IncludeStart |-> FALSE, IncludeEnd |-> FALSE, Substitutions |-> <<>>,
     Trim |-> FALSE, TrimPrefix |-> <<>>, TrimSuffix |-> <<>>, Template |-> <<>>,
     yamlMode |-> FALSE]

\* the three entries of the map specials, as (key, value) pairs
specialNewline == << <<"$","e","m","b","e","d",":","{","n","e","w","l","i","n","e","}">>, <<"\n">> >>

specialBraceOpen ==
    << <<"$","e","m","b","e","d",":","{","b","r","a","c","e","O","p","e","n","}">>, <<"(">> >>

specialBraceClose ==
    << <<"$","e","m","b","e","d",":","{","b","r","a","c","e","C","l","o","s","e","}">>, <<")">> >>

\* replaceSpecial: every key is replaced by its value.  The map is ranged over
\* in an unspecified order; no value contains a character of a key, so no
\* replacement makes or breaks an occurrence of another key and every order
\* gives the same text.
replaceSpecial(s) ==
    ReplaceAll(ReplaceAll(ReplaceAll(s, specialNewline[1], specialNewline[2]),
                          specialBraceOpen[1], specialBraceOpen[2]),
               specialBraceClose[1], specialBraceClose[2])

\* unescapeSlash: \/ becomes /
unescapeSlash(s) == ReplaceAll(s, <<"\\", "/">>, <<"/">>)

\* nextSlash: the index of the first slash of s that no backslash precedes, or -1
nextSlash(s) == First({i \in 0..(Len(s) - 1) : s[i + 1] = "/" /\ (i = 0 \/ s[i] # "\\")})

\* a parseField: subs is "the pointer subs is not nil"
PlainField(p) == [subs |-> FALSE, Pattern |-> <<>>, Replacement |-> <<>>, plain |-> p]

SubsField(p, r) == [subs |-> TRUE, Pattern |-> p, Replacement |-> r, plain |-> <<>>]

\* One field is cut off the text and the loop of fields goes on with the
\* rest.  The text s is trimmed and not empty; args are the fields so far.
RECURSIVE fieldsLoop(_, _)
\* the branch s/pattern/replacement/ once both slashes are found
fieldsSubs(s, args, patternLen, subsLen) ==
    fieldsLoop(From(s, patternLen + subsLen + 4),
               Append(args,
                      SubsField(unescapeSlash(Slice(s, 2, patternLen + 2)),
                                unescapeSlash(Slice(s, patternLen + 3,
                                                    patternLen + subsLen + 3)))))

\* the branch s/pattern/replacement/, subsLen being nextSlash(s[patternLen+3:])
fieldsSubsTail(s, args, patternLen, subsLen) ==
    IF subsLen < 0 THEN [err |-> "unbalanced /", args |-> <<>>]
    ELSE fieldsSubs(s, args, patternLen, subsLen)

\* the branch s/pattern/replacement/, patternLen being nextSlash(s[2:])
fieldsSubsHead(s, args, patternLen) ==
    IF patternLen < 0 THEN [err |-> "unbalanced /", args |-> <<>>]
    ELSE fieldsSubsTail(s, args, patternLen, nextSlash(From(s, patternLen + 3)))

\* the branch /regexp/, sep being nextSlash(s[1:])
fieldsRegexp(s, args, sep) ==
    IF sep < 0 THEN [err |-> "unbalanced /", args |-> <<>>]
    ELSE fieldsLoop(From(s, sep + 2), Append(args, PlainField(Slice(s, 0, sep + 2))))

\* the last branch, sep being strings.IndexByte(s[1:], ' ')
fieldsPlain(s, args, sep) ==
    IF sep < 0 THEN [err |-> "", args |-> Append(args, PlainField(s))]
    ELSE fieldsLoop(From(s, sep + 1), Append(args, PlainField(Slice(s, 0, sep + 1))))

\* the body of the loop of fields, on the trimmed text s
fieldsBody(s, args) ==
    IF Len(s) = 0 THEN [err |-> "", args |-> args]
    ELSE IF HasPrefix(s, <<"s", "/">>) THEN fieldsSubsHead(s, args, nextSlash(From(s, 2)))
    ELSE IF s[1] = "/" THEN fieldsRegexp(s, args, nextSlash(From(s, 1)))
    ELSE fieldsPlain(s, args, IndexByte(From(s, 1), " "))

\* the loop of fields: s is what is left of the text, args the fields so far
fieldsLoop(s, args) == fieldsBody(TrimSpace(s), args)

\* fields: the groups of text separated by blanks
fields(s) == fieldsLoop(s, <<>>)

\* the map flags
noCode == <<"n","o","C","o","d","e">>

noStart == <<"n","o","S","t","a","r","t">>

noEnd == <<"n","o","E","n","d">>

IsFlag(p) == p \in {noCode, noStart, noEnd}

\* ApplyFlag gone wrong: noStart clears includeEnd as well
ApplyFlagBoth(c, p) ==
    IF p = noCode THEN [c EXCEPT !.Type = typePlain]
    ELSE IF p = noStart THEN [c EXCEPT !.IncludeStart = FALSE, !.IncludeEnd = FALSE]
    ELSE [c EXCEPT !.IncludeEnd = FALSE]

ApplyFlag(c, p) ==
    IF p = noCode THEN [c EXCEPT !.Type = typePlain]
    ELSE IF p = noStart THEN [c EXCEPT !.IncludeStart = FALSE]
    ELSE [c EXCEPT !.IncludeEnd = FALSE]

\* the first loop of parseCommand: the flags that directly follow the path
RECURSIVE flagsLoop(_, _)
flagsLoop(c, args) ==
    IF Len(args) > 0 /\ IsFlag(args[1].plain)
    THEN flagsLoop(ApplyFlag(c, args[1].plain), Tail(args))
    ELSE [cmd |-> c, args |-> args]

\* the second loop of parseCommand: the substitutions that directly follow
RECURSIVE subsLoop(_, _)
\* subsLoop gone wrong: a substitution is put before the ones collected so far
subsLoopFront(c, args) ==
    IF Len(args) > 0 /\ args[1].subs
    THEN subsLoop([c EXCEPT !.Substitutions =
                        <<[Pattern |-> args[1].Pattern,
                           Replacement |-> args[1].Replacement]>> \o @],
                  Tail(args))
    ELSE [cmd |-> c, args |-> args]

subsLoop(c, args) ==
    IF Len(args) > 0 /\ args[1].subs
    THEN subsLoop([c EXCEPT !.Substitutions =
                        Append(@, [Pattern |-> args[1].Pattern,
                                   Replacement |-> args[1].Replacement])],
                  Tail(args))
    ELSE [cmd |-> c, args |-> args]

\* the suffix of path from its last dot at one of the positions dots, if any
extFrom(path, dots) ==
    IF dots = {} THEN <<>>
    ELSE From(path, (CHOOSE i \in dots : \A j \in dots : j <= i) - 1)

\* filepath.Ext: the suffix of the last element of the path from its last dot
Ext(path) ==
    extFrom(path, {i \in 1..Len(path) : path[i] = "." /\ \A j \in i..Len(path) : path[j] # "/"})

\* results of parseCommand: a command, an error, or a run-time panic
ParseOk(c) == [st |-> "ok", err |-> "", cmd |-> c]

ParseErr(e) == [st |-> "error", err |-> e, cmd |-> ZeroCommand]

ParsePanic == [st |-> "panic", err |-> "slice bounds out of range", cmd |-> ZeroCommand]

\* the end of parseCommand: what is left becomes start and end
parseLimits(r) ==
    IF Len(r.args) = 1 THEN ParseOk([r.cmd EXCEPT !.Start = Ptr(r.args[1].plain)])
    ELSE IF Len(r.args) = 2
    THEN ParseOk([r.cmd EXCEPT !.Start = Ptr(r.args[1].plain),
                               !.End = Ptr(r.args[2].plain)])
    ELSE IF Len(r.args) > 2 THEN ParseErr("too many arguments")
    ELSE ParseOk(r.cmd)

\* the language taken from the extension ext of the path
parseExt(c, args, ext) ==
    IF Len(ext) = 0 THEN ParseErr("language is required when file has no extension")
    ELSE parseLimits(subsLoop([c EXCEPT !.Lang = From(ext, 1)], args))

\* the language step of parseCommand and what follows it
parseLang(r) ==
    IF Len(r.args) > 0 /\ r.args[1].plain # <<>> /\ r.args[1].plain[1] # "/"
    THEN parseLimits(subsLoop([r.cmd EXCEPT !.Lang = r.args[1].plain], Tail(r.args)))
    ELSE IF Len(r.cmd.Path) < 1 THEN ParsePanic      \* cmd.Path[1:] of an empty Path
    ELSE parseExt(r.cmd, r.args, Ext(From(r.cmd.Path, 1)))

\* parseCommand from the fields f of the argument list
parseFields(f) ==
    IF f.err # "" THEN ParseErr(f.err)
    ELSE IF Len(f.args) = 0 THEN ParseErr("missing file name")
    ELSE parseLang(flagsLoop([ZeroCommand EXCEPT !.Path = f.args[1].plain,
                                                 !.Type = typeCode,
                                                 !.IncludeStart = TRUE,
                                                 !.IncludeEnd = TRUE],
                             Tail(f.args)))

\* parseCommand on the text s, trimmed and with the specials replaced
parseArgs(s) ==
    IF Len(s) < 2 \/ s[1] # "(" \/ s[Len(s)] # ")"
    THEN ParseErr("argument list should be in parenthesis")
    ELSE parseFields(fields(Slice(s, 1, Len(s) - 1)))

parseCommand(s) == parseArgs(replaceSpecial(TrimSpace(s)))

(***************************************************************************)
(* Regular expressions (package regexp).  The model covers the fragment of  *)
(* patterns made of literal characters: such a pattern matches exactly its  *)
(* own text, and its leftmost(-longest) match is its first occurrence.  A   *)
(* pattern with an unbalanced parenthesis does not compile.                *)
(***************************************************************************)
RECURSIVE parenDepth(_, _)
parenDepth(p, d) ==
    IF d < 0 THEN -1
    ELSE IF p = <<>> THEN d
    ELSE parenDepth(Tail(p), IF Head(p) = "(" THEN d + 1
                             ELSE IF Head(p) = ")" THEN d - 1 ELSE d)

\* regexp.CompilePOSIX / regexp.Compile succeed
regexpCompiles(p) == parenDepth(p, 0) = 0

\* the two offsets of a match that starts at offset i, or <<>> (nil) for i = -1
matchLoc(i, n) == IF i < 0 THEN <<>> ELSE <<i, i + n>>

\* Regexp.FindIndex: the two offsets of the leftmost match, or <<>> for nil.
\* The pattern $ alone is the end of the text: it matches the empty text there.
FindIndex(p, b) ==
    IF p = <<"$">> THEN <<Len(b), Len(b)>> ELSE matchLoc(Index(b, p), Len(p))

\* Regexp.ReplaceAll with a replacement that has no $ reference: an empty
\* pattern matches before every byte and at the end
RECURSIVE regexpReplaceAll(_, _, _)
regexpReplaceAll(b, p, repl) ==
    IF p = <<>>
    THEN IF b = <<>> THEN repl
         ELSE repl \o <<Head(b)>> \o regexpReplaceAll(Tail(b), p, repl)
    ELSE ReplaceAll(b, p, repl)

(***************************************************************************)
(* extract                                                                 *)
(***************************************************************************)
ExtOk(b) == [st |-> "ok", err |-> "", arg |-> <<>>, b |-> b]

ExtErr(e, a) == [st |-> "error", err |-> e, arg |-> a, b |-> <<>>]

\* dereferencing a nil *string
ExtPanic == [st |-> "panic", err |-> "nil pointer dereference", arg |-> <<>>, b |-> <<>>]

\* the end of the closure match: loc is what FindIndex returned
matchFound(s, loc) ==
    IF loc = <<>> THEN [err |-> "could not match", arg |-> s, loc |-> <<>>]
    ELSE [err |-> "", arg |-> <<>>, loc |-> loc]

\* the closure match once the pattern is known
matchPattern(s, pattern, b) ==
    IF ~regexpCompiles(pattern)
    THEN [err |-> "error parsing regexp", arg |-> pattern, loc |-> <<>>]
    ELSE matchFound(s, FindIndex(pattern, b))

\* the closure match of extract, applied to the working content b
match(s, b, c) ==
    IF c.yamlMode THEN matchPattern(s, s, b)
    ELSE IF Len(s) <= 2 \/ s[1] # "/" \/ s[Len(s)] # "/"
    THEN [err |-> "missing slashes (/) around", arg |-> s, loc |-> <<>>]
    ELSE matchPattern(s, Slice(s, 1, Len(s) - 1), b)

\* lines 597-605: the working content b is cut at the match m of the end
extractEndAt(b, c, m) ==
    IF m.err # "" THEN ExtErr(m.err, m.arg)
    ELSE ExtOk(Slice(b, 0, IF c.IncludeEnd THEN m.loc[2] ELSE m.loc[1]))

\* lines 596-608: the end limit, on the working content b
extractEnd(b, c) ==
    IF c.End.nil THEN ExtPanic                      \* *c.End of a nil End
    ELSE IF c.End.s # <<"$">> THEN extractEndAt(b, c, match(c.End.s, b, c))
    ELSE ExtOk(b)

\* extractStartAt gone wrong: includeStart is honoured when end is unset too
extractStartAtIncluding(b, c, m) ==
    IF m.err # "" THEN ExtErr(m.err, m.arg)
    ELSE IF c.End.nil
    THEN ExtOk(Slice(b, IF c.IncludeStart THEN m.loc[1] ELSE m.loc[2], m.loc[2]))
    ELSE extractEnd(From(b, IF c.IncludeStart THEN m.loc[1] ELSE m.loc[2]), c)

\* extractStartAt gone wrong: the end is searched in the content that is not
\* cut at the match of the start, and the result is cut at the start afterwards
extractStartAtWhole(b, c, m) ==
    IF m.err # "" THEN ExtErr(m.err, m.arg)
    ELSE IF c.End.nil THEN ExtOk(Slice(b, m.loc[1], m.loc[2]))
    ELSE IF extractEnd(b, c).st # "ok" THEN extractEnd(b, c)
    ELSE ExtOk(From(extractEnd(b, c).b,
                    Min(Len(extractEnd(b, c).b),
                        IF c.IncludeStart THEN m.loc[1] ELSE m.loc[2])))

\* lines 582-593: the content b and the match m of the start
extractStartAt(b, c, m) ==
    IF m.err # "" THEN ExtErr(m.err, m.arg)
    ELSE IF c.End.nil THEN ExtOk(Slice(b, m.loc[1], m.loc[2]))
    ELSE extractEnd(From(b, IF c.IncludeStart THEN m.loc[1] ELSE m.loc[2]), c)

\* extract gone wrong: the test of lines 558-560 is missing
extractUnguarded(b, c) ==
    IF c.Start.nil THEN ExtPanic
    ELSE IF c.Start.s # <<>> THEN extractStartAt(b, c, match(c.Start.s, b, c))
    ELSE extractEnd(b, c)

extract(b, c) ==
    IF c.Start.nil /\ c.End.nil THEN ExtOk(b)
    ELSE IF c.Start.nil THEN ExtPanic               \* *c.Start of a nil Start
    ELSE IF c.Start.s # <<>> THEN extractStartAt(b, c, match(c.Start.s, b, c))
    ELSE extractEnd(b, c)

(***************************************************************************)
(* replace, applyTemplate and embedder.runCommand                          *)
(***************************************************************************)
\* replace: the substitutions one after another
RECURSIVE replace(_, _)
replace(b, substitutions) ==
    IF substitutions = <<>> THEN [err |-> "", b |-> b]
    ELSE IF ~regexpCompiles(substitutions[1].Pattern)
    THEN [err |-> "error parsing regexp", b |-> <<>>]
    ELSE replace(regexpReplaceAll(b, substitutions[1].Pattern, substitutions[1].Replacement),
                 Tail(substitutions))

\* the action {{.Content}} of a template, and the opening of any action
contentAction == <<"{", "{", ".", "C", "o", "n", "t", "e", "n", "t", "}", "}">>

actionOpen == <<"{", "{">>

\* applyTemplate for the templates made of text and of the action {{.Content}}:
\* any other action is outside the fields of templateArgs and fails
applyTemplate(content, templateDef) ==
    IF Index(ReplaceAll(templateDef, contentAction, <<>>), actionOpen) >= 0
    THEN [err |-> "template error", b |-> <<>>]
    ELSE [err |-> "", b |-> ReplaceAll(templateDef, contentAction, content)]

\* the mount points of the embedder, replaced in the order given
RECURSIVE resolveMounts(_, _)
resolveMounts(path, mounts) ==
    IF mounts = <<>> THEN path
    ELSE resolveMounts(ReplaceAll(path, mounts[1][1], mounts[1][2]), Tail(mounts))

\* Fetcher.Fetch on a fetcher that serves the files of fs, a set of pairs
\* <<path, content>> with one content for a path
Fetch(files, path) ==
    IF \E f \in files : f[1] = path
    THEN [err |-> "", b |-> (CHOOSE f \in files : f[1] = path)[2]]
    ELSE [err |-> "file does not exist", b |-> <<>>]

RunOk(w) == [st |-> "ok", err |-> "", arg |-> <<>>, w |-> w]

\* every error return of runCommand comes before its first write
RunErr(e, a) == [st |-> "error", err |-> e, arg |-> a, w |-> <<>>]

RunPanic == [st |-> "panic", err |-> "nil pointer dereference", arg |-> <<>>, w |-> <<>>]

\* lines 513-515: a newline is added to content that is not empty and lacks one
ensureNewline(b) == IF Len(b) > 0 /\ b[Len(b)] # "\n" THEN Append(b, "\n") ELSE b

\* lines 522-524 and 531-533: trim
trimStep(b, cmd) == IF cmd.Trim THEN TrimSpace(b) ELSE b

\* lines 525-527: trimPrefix
trimPrefixStep(b, cmd) == IF cmd.TrimPrefix # <<>> THEN TrimPrefix(b, cmd.TrimPrefix) ELSE b

\* lines 528-530: trimSuffix
trimSuffixStep(b, cmd) == IF cmd.TrimSuffix # <<>> THEN TrimSuffix(b, cmd.TrimSuffix) ELSE b

\* trimSteps gone wrong: trimPrefix and trimSuffix come before the first trim
trimStepsLate(b, cmd) == trimStep(trimStep(trimSuffixStep(trimPrefixStep(b, cmd), cmd), cmd), cmd)

\* lines 522-533: trim, trimPrefix, trimSuffix, trim
trimSteps(b, cmd) == trimStep(trimSuffixStep(trimPrefixStep(trimStep(b, cmd), cmd), cmd), cmd)

\* the fence marker: three backquotes.  A TLA+ string cannot hold a backquote,
\* so the model writes that character as an apostrophe.
fence == <<"'", "'", "'">>

\* writeOutput gone wrong: the newline before the closing fence is written
\* without looking at the end of the content
writeOutputNewline(b, cmd) ==
    (IF cmd.Type = typeCode THEN Ln(fence \o cmd.Lang) ELSE <<>>)
    \o b
    \o (IF cmd.Type = typeCode \/ cmd.yamlMode THEN <<"\n">> ELSE <<>>)
    \o (IF cmd.Type = typeCode THEN Ln(fence) ELSE <<>>)

\* lines 542-553: what runCommand writes for the formatted content b
writeOutput(b, cmd) ==
    (IF cmd.Type = typeCode THEN Ln(fence \o cmd.Lang) ELSE <<>>)
    \o b
    \o (IF (cmd.Type = typeCode \/ cmd.yamlMode) /\ ~HasSuffix(b, <<"\n">>)
        THEN <<"\n">> ELSE <<>>)
    \o (IF cmd.Type = typeCode THEN Ln(fence) ELSE <<>>)

\* runTemplated gone wrong: the opening fence is written before the template
\* is rendered
runTemplatedFenceFirst(cmd, path, a) ==
    IF a.err # ""
    THEN [RunErr("could not apply template to content from", path)
             EXCEPT !.w = IF cmd.Type = typeCode THEN Ln(fence \o cmd.Lang) ELSE <<>>]
    ELSE RunOk(writeOutput(a.b, cmd))

\* lines 535-554: a is the result of the template step
runTemplated(cmd, path, a) ==
    IF a.err # "" THEN RunErr("could not apply template to content from", path)
    ELSE RunOk(writeOutput(a.b, cmd))

\* lines 522-540: b is the content after the trim steps
runTrimmed(cmd, path, b) ==
    runTemplated(cmd, path, IF cmd.Template # <<>> THEN applyTemplate(b, cmd.Template)
                            ELSE [err |-> "", b |-> b])

\* lines 517-533: r is the result of replace
runReplaced(cmd, path, r) ==
    IF r.err # "" THEN RunErr("could not replace content from", path)
    ELSE runTrimmed(cmd, path, trimSteps(r.b, cmd))

\* lines 508-517: x is the result of extract
runExtracted(cmd, path, x) ==
    IF x.st = "panic" THEN RunPanic
    ELSE IF x.st = "error" THEN RunErr("could not extract content from", path)
    ELSE runReplaced(cmd, path, replace(ensureNewline(x.b), cmd.Substitutions))

\* lines 503-508: f is the result of Fetch
runFetched(cmd, path, f) ==
    IF f.err # "" THEN RunErr("could not read", path)
    ELSE runExtracted(cmd, path, extract(f.b, cmd))

\* lines 499-503: path is the path with the mounts resolved
runResolved(cmd, files, path) == runFetched(cmd, path, Fetch(files, path))

\* runCommand on the fetcher of files with the mounts ranged over in the order
\* mounts; w is all that the run writes
runCommand(cmd, files, mounts) == runResolved(cmd, files, resolveMounts(cmd.Path, mounts))

(***************************************************************************)
(* yaml.Unmarshal into a command, for the YAML texts made of lines         *)
(* "key: value" with plain scalar values: a key that is no field of the    *)
(* command is skipped, a line without a colon or a value of the wrong type *)
(* is an error.  The keys are the yaml tags of the struct command.         *)
(***************************************************************************)
yamlTrue == <<"t", "r", "u", "e">>

yamlFalse == <<"f", "a", "l", "s", "e">>

yamlSet(c, key, v) ==
    IF key = <<"s", "r", "c">> THEN [err |-> "", cmd |-> [c EXCEPT !.Path = v]]
    ELSE IF key = <<"l", "a", "n", "g">> THEN [err |-> "", cmd |-> [c EXCEPT !.Lang = v]]
    ELSE IF key = <<"t", "y", "p", "e">>
    THEN [err |-> "", cmd |-> [c EXCEPT !.Type = IF v = <<"c", "o", "d", "e">> THEN typeCode
                                                 ELSE IF v = <<"p", "l", "a", "i", "n">>
                                                 THEN typePlain ELSE "other"]]
    ELSE IF key = <<"s", "t", "a", "r", "t">> THEN [err |-> "", cmd |-> [c EXCEPT !.Start = Ptr(v)]]
    ELSE IF key = <<"e", "n", "d">> THEN [err |-> "", cmd |-> [c EXCEPT !.End = Ptr(v)]]
    ELSE IF key = <<"i", "n", "c", "l", "u", "d", "e", "S", "t", "a", "r", "t">>
    THEN IF v \in {yamlTrue, yamlFalse}
         THEN [err |-> "", cmd |-> [c EXCEPT !.IncludeStart = (v = yamlTrue)]]
         ELSE [err |-> "yaml: cannot unmarshal", cmd |-> c]
    ELSE IF key = <<"i", "n", "c", "l", "u", "d", "e", "E", "n", "d">>
    THEN IF v \in {yamlTrue, yamlFalse}
         THEN [err |-> "", cmd |-> [c EXCEPT !.IncludeEnd = (v = yamlTrue)]]
         ELSE [err |-> "yaml: cannot unmarshal", cmd |-> c]
    ELSE IF key = <<"t", "r", "i", "m">>
    THEN IF v \in {yamlTrue, yamlFalse}
         THEN [err |-> "", cmd |-> [c EXCEPT !.Trim = (v = yamlTrue)]]
         ELSE [err |-> "yaml: cannot unmarshal", cmd |-> c]
    ELSE IF key = <<"t", "r", "i", "m", "P", "r", "e", "f", "i", "x">>
    THEN [err |-> "", cmd |-> [c EXCEPT !.TrimPrefix = v]]
    ELSE IF key = <<"t", "r", "i", "m", "S", "u", "f", "f", "i", "x">>
    THEN [err |-> "", cmd |-> [c EXCEPT !.TrimSuffix = v]]
    ELSE IF key = <<"t", "e", "m", "p", "l", "a", "t", "e">>
    THEN [err |-> "", cmd |-> [c EXCEPT !.Template = v]]
    ELSE [err |-> "", cmd |-> c]

RECURSIVE yamlDecode(_, _)
\* one line was decoded with the result r
yamlNext(ls, r) == IF r.err # "" THEN r ELSE yamlDecode(Tail(ls), r.cmd)

\* the trimmed line l, with its first colon at offset i
yamlLine(ls, c, l, i) ==
    IF l = <<>> THEN yamlDecode(Tail(ls), c)
    ELSE IF i < 0 THEN [err |-> "yaml: could not find expected ':'", cmd |-> c]
    ELSE yamlNext(ls, yamlSet(c, Slice(l, 0, i), TrimSpace(From(l, i + 1))))

\* the lines ls are decoded one after another into the command c
yamlDecode(ls, c) ==
    IF ls = <<>> THEN [err |-> "", cmd |-> c]
    ELSE yamlLine(ls, c, TrimSpace(ls[1]), IndexByte(TrimSpace(ls[1]), ":"))

\* the key of the line l, or the empty text if l has no colon
yamlKey(l) ==
    IF IndexByte(TrimSpace(l), ":") < 0 THEN <<>>
    ELSE Slice(TrimSpace(l), 0, IndexByte(TrimSpace(l), ":"))

\* no key is given twice: the decoder of yaml.v3 refuses a mapping that
\* defines a key twice, whether the key is a field of the command or not
yamlUnique(ls) ==
    \A i \in 1..Len(ls) : \A j \in (i + 1)..Len(ls) :
        yamlKey(ls[i]) # <<>> => yamlKey(ls[i]) # yamlKey(ls[j])

yamlUnmarshal(ls, c) ==
    IF ~yamlUnique(ls) THEN [err |-> "yaml: mapping key already defined", cmd |-> c]
    ELSE yamlDecode(ls, c)

(***************************************************************************)
(* The document scanner: process and its state functions.                  *)
(***************************************************************************)
VARIABLES
    in,      \* the bytes of the document given to process
    lines,   \* the tokens the scanner yields for in
    line,    \* countingScanner.line: the number of lines read so far
    state,   \* the state function the loop of process calls next
    print,   \* codeParser.print
    yaml,    \* yamlParser.yaml
    drop,    \* yamlParser.drop
    out,     \* the bytes written to the writer out
    res,     \* "running", or how process ended: "ok", "error", "panic"
    err,     \* the error returned: the line that prefixes it and its message
    runs,    \* every call of the command runner: the line read last, the command, its result
    fs,      \* the files the fetcher serves
    pass,    \* 1 for the first pass, 2 for the pass over the output of the first
    doc1,    \* the document of the first pass
    out1,    \* the output of the first pass
    fin,     \* the argument of a function applied on its own
    fout,    \* its result
    fpc      \* "call" before the function is applied, "done" after

vars == <<in, lines, line, state, print, yaml, drop, out, res, err, runs, fs, pass,
          doc1, out1, fin, fout, fpc>>

scanVars == <<in, lines, line, state, print, yaml, drop, out, res, err, runs, fs, pass,
              doc1, out1>>

funVars == <<fin, fout, fpc>>

\* the directive prefix [embedmd]:#
directive == <<"[", "e", "m", "b", "e", "d", "m", "d", "]", ":", "#">>

embedLine == <<"e", "m", "b", "e", "d", ":">>

yamlEnd == <<"-", "-", "-">>

NoErr == [line |-> 0, msg |-> "", arg |-> <<>>]

\* s.Text(): the line read last
Text == lines[line]

\* s.Scan() would succeed
CanScan == line < Len(lines)

\* Fail gone wrong: the line is counted from 0
FailFromZero(l, e, a) ==
    /\ res' = "error"
    /\ err' = [line |-> l - 1, msg |-> e, arg |-> a]
    /\ state' = "nil"

\* process returns the error e, prefixed with s.line
Fail(l, e, a) ==
    /\ res' = "error"
    /\ err' = [line |-> l, msg |-> e, arg |-> a]
    /\ state' = "nil"

\* a run-time panic leaves process
Panic ==
    /\ res' = "panic"
    /\ err' = NoErr
    /\ state' = "nil"

\* the state function returned nil, nil: the loop ends and process returns nil
Finish ==
    /\ res' = "ok"
    /\ err' = NoErr
    /\ state' = "nil"

parsingText ==
    /\ res = "running" /\ state = "parsingText"
    /\ IF ~CanScan
       THEN /\ Finish
            /\ UNCHANGED <<line, print, yaml, drop, out, runs>>
       ELSE LET t == lines[line + 1]
            IN /\ line' = line + 1
               /\ UNCHANGED <<res, err, runs>>
               /\ IF line + 1 = 2 /\ t = embedLine
                  THEN /\ state' = "yamlParser"
                       /\ yaml' = <<>>
                       /\ drop' = FALSE
                       /\ UNCHANGED <<print, out>>
                  ELSE IF HasPrefix(t, directive)
                  THEN /\ state' = "parsingCmd"
                       /\ UNCHANGED <<print, yaml, drop, out>>
                  ELSE IF HasPrefix(t, fence)
                  THEN /\ state' = "codeParser"
                       /\ print' = TRUE
                       /\ UNCHANGED <<yaml, drop, out>>
                  ELSE /\ out' = out \o Ln(t)
                       /\ UNCHANGED <<state, print, yaml, drop>>
    /\ UNCHANGED <<in, lines, fs, pass, doc1, out1, funVars>>

\* the call of the command runner made on line l, as logged in runs
RunRecord(l, cmd, r) == [line |-> l, cmd |-> cmd, st |-> r.st, w |-> r.w]

\* parsingCmdRan gone wrong: the line read after the directive is not echoed
parsingCmdRanSilent(echoed, r) ==
    IF r.st = "error"
    THEN /\ Fail(line, r.err, r.arg)
         /\ out' = echoed
         /\ UNCHANGED <<line, print>>
    ELSE IF r.st = "panic"
    THEN /\ Panic
         /\ out' = echoed
         /\ UNCHANGED <<line, print>>
    ELSE IF ~CanScan
    THEN /\ Finish
         /\ out' = echoed \o r.w
         /\ UNCHANGED <<line, print>>
    ELSE /\ line' = line + 1
         /\ UNCHANGED <<res, err>>
         /\ out' = echoed \o r.w
         /\ IF HasPrefix(lines[line + 1], fence)
            THEN /\ state' = "codeParser"
                 /\ print' = FALSE
            ELSE /\ state' = "parsingText"
                 /\ UNCHANGED print

\* parsingCmdRan gone wrong: the line read after the directive is written
\* before what the run wrote
parsingCmdRanEarly(echoed, r) ==
    IF r.st = "error"
    THEN /\ Fail(line, r.err, r.arg)
         /\ out' = echoed
         /\ UNCHANGED <<line, print>>
    ELSE IF r.st = "panic"
    THEN /\ Panic
         /\ out' = echoed
         /\ UNCHANGED <<line, print>>
    ELSE IF ~CanScan
    THEN /\ Finish
         /\ out' = echoed \o r.w
         /\ UNCHANGED <<line, print>>
    ELSE /\ line' = line + 1
         /\ UNCHANGED <<res, err>>
         /\ IF HasPrefix(lines[line + 1], fence)
            THEN /\ state' = "codeParser"
                 /\ print' = FALSE
                 /\ out' = echoed \o r.w
            ELSE /\ state' = "parsingText"
                 /\ out' = echoed \o Ln(lines[line + 1]) \o r.w
                 /\ UNCHANGED print

\* lines 88-98 of parsingCmd: the runner returned r; echoed is the output so far
parsingCmdRan(echoed, r) ==
    IF r.st = "error"
    THEN /\ Fail(line, r.err, r.arg)
         /\ out' = echoed
         /\ UNCHANGED <<line, print>>
    ELSE IF r.st = "panic"
    THEN /\ Panic
         /\ out' = echoed
         /\ UNCHANGED <<line, print>>
    ELSE IF ~CanScan
    THEN /\ Finish
         /\ out' = echoed \o r.w
         /\ UNCHANGED <<line, print>>
    ELSE /\ line' = line + 1
         /\ UNCHANGED <<res, err>>
         /\ IF HasPrefix(lines[line + 1], fence)
            THEN /\ state' = "codeParser"
                 /\ print' = FALSE
                 /\ out' = echoed \o r.w
            ELSE /\ state' = "parsingText"
                 /\ out' = echoed \o r.w \o Ln(lines[line + 1])
                 /\ UNCHANGED print

\* lines 84-90 of parsingCmd: parseCommand returned p, then the runner returns r
parsingCmdParsed(echoed, p, r) ==
    IF p.st = "error"
    THEN /\ Fail(line, p.err, <<>>)
         /\ out' = echoed
         /\ UNCHANGED <<line, print, runs>>
    ELSE IF p.st = "panic"
    THEN /\ Panic
         /\ out' = echoed
         /\ UNCHANGED <<line, print, runs>>
    ELSE /\ runs' = Append(runs, RunRecord(line, p.cmd, r))
         /\ parsingCmdRan(echoed, r)

\* the call run(out, cmd) of the scanner: embedder.runCommand without mounts
run(cmd) == runCommand(cmd, fs, <<>>)

\* lines 81-84 of parsingCmd: the line is echoed and its arguments are parsed
parsingCmdLine(echoed, p) == parsingCmdParsed(echoed, p, run(p.cmd))

parsingCmd ==
    /\ res = "running" /\ state = "parsingCmd"
    /\ parsingCmdLine(out \o Ln(Text), parseCommand(From(Text, Index(Text, <<"#">>) + 1)))
    /\ UNCHANGED <<yaml, drop>>
    /\ UNCHANGED <<in, lines, fs, pass, doc1, out1, funVars>>

\* codeParserScan gone wrong: a directive line inside the block is handed to
\* parsingCmd
codeParserScanDirective(echoed) ==
    IF ~CanScan
    THEN /\ Fail(line, "unbalanced code section", <<>>)
         /\ out' = echoed
         /\ UNCHANGED line
    ELSE /\ line' = line + 1
         /\ UNCHANGED <<res, err>>
         /\ IF HasPrefix(lines[line + 1], directive)
            THEN /\ out' = echoed
                 /\ state' = "parsingCmd"
            ELSE IF ~HasPrefix(lines[line + 1], fence)
            THEN /\ out' = echoed
                 /\ UNCHANGED state
            ELSE /\ out' = IF print THEN echoed \o Ln(lines[line + 1]) ELSE echoed
                 /\ state' = "parsingText"

\* codeParserScan gone wrong: the end of the input closes the block
codeParserScanLenient(echoed) ==
    IF ~CanScan
    THEN /\ Finish
         /\ out' = echoed
         /\ UNCHANGED line
    ELSE /\ line' = line + 1
         /\ UNCHANGED <<res, err>>
         /\ IF ~HasPrefix(lines[line + 1], fence)
            THEN /\ out' = echoed
                 /\ UNCHANGED state
            ELSE /\ out' = IF print THEN echoed \o Ln(lines[line + 1]) ELSE echoed
                 /\ state' = "parsingText"

\* codeParserScan gone wrong: a line inside the block is looked at without
\* being scanned, so the scanner stays where it is
codeParserScanStay(echoed) ==
    IF ~CanScan
    THEN /\ Fail(line, "unbalanced code section", <<>>)
         /\ out' = echoed
         /\ UNCHANGED line
    ELSE /\ UNCHANGED <<res, err>>
         /\ IF ~HasPrefix(lines[line + 1], fence)
            THEN /\ line' = line
                 /\ out' = echoed
                 /\ UNCHANGED state
            ELSE /\ line' = line + 1
                 /\ out' = IF print THEN echoed \o Ln(lines[line + 1]) ELSE echoed
                 /\ state' = "parsingText"

\* codeParser.parse after its first write: echoed is the output so far
codeParserScan(echoed) ==
    IF ~CanScan
    THEN /\ Fail(line, "unbalanced code section", <<>>)
         /\ out' = echoed
         /\ UNCHANGED line
    ELSE /\ line' = line + 1
         /\ UNCHANGED <<res, err>>
         /\ IF ~HasPrefix(lines[line + 1], fence)
            THEN /\ out' = echoed
                 /\ UNCHANGED state
            ELSE /\ out' = IF print THEN echoed \o Ln(lines[line + 1]) ELSE echoed
                 /\ state' = "parsingText"

codeParser ==
    /\ res = "running" /\ state = "codeParser"
    /\ codeParserScan(IF print THEN out \o Ln(Text) ELSE out)
    /\ UNCHANGED <<print, yaml, drop, runs>>
    /\ UNCHANGED <<in, lines, fs, pass, doc1, out1, funVars>>

\* lines 146-148 of yamlParser.parse: the runner returned r
yamlParserRan(marked, r) ==
    IF r.st = "error"
    THEN /\ Fail(line + 1, r.err, r.arg)
         /\ out' = marked
         /\ UNCHANGED drop
    ELSE IF r.st = "panic"
    THEN /\ Panic
         /\ out' = marked
         /\ UNCHANGED drop
    ELSE /\ drop' = TRUE
         /\ out' = marked \o r.w
         /\ UNCHANGED <<res, err, state>>

\* lines 140-148 of yamlParser.parse: yaml.Unmarshal returned u, then the runner returns r
yamlParserDecoded(marked, u, r) ==
    IF u.err # ""
    THEN /\ Fail(line + 1, u.err, <<>>)
         /\ out' = marked
         /\ UNCHANGED <<drop, runs>>
    ELSE /\ runs' = Append(runs, RunRecord(line + 1, u.cmd, r))
         /\ yamlParserRan(marked, r)

\* lines 137-141 of yamlParser.parse: the line --- was read
yamlParserEnd(marked, u) == yamlParserDecoded(marked, u, run(u.cmd))

\* yamlParserCollect gone wrong: no empty line is written after the line ---
yamlParserCollectPlain(echoed) ==
    IF ~CanScan
    THEN /\ Fail(line, "unbalanced yaml section", <<>>)
         /\ out' = echoed
         /\ UNCHANGED <<line, yaml, drop, runs>>
    ELSE /\ line' = line + 1
         /\ IF lines[line + 1] = yamlEnd
            THEN /\ yamlParserEnd(echoed \o lines[line + 1] \o <<"\n">>,
                                  yamlUnmarshal(yaml, [ZeroCommand EXCEPT !.yamlMode = TRUE]))
                 /\ UNCHANGED yaml
            ELSE /\ yaml' = Append(yaml, lines[line + 1])
                 /\ out' = echoed
                 /\ UNCHANGED <<res, err, state, drop, runs>>

\* lines 132-151 of yamlParser.parse, drop being false
yamlParserCollect(echoed) ==
    IF ~CanScan
    THEN /\ Fail(line, "unbalanced yaml section", <<>>)
         /\ out' = echoed
         /\ UNCHANGED <<line, yaml, drop, runs>>
    ELSE /\ line' = line + 1
         /\ IF lines[line + 1] = yamlEnd
            THEN /\ yamlParserEnd(echoed \o lines[line + 1] \o <<"\n", "\n">>,
                                  yamlUnmarshal(yaml, [ZeroCommand EXCEPT !.yamlMode = TRUE]))
                 /\ UNCHANGED yaml
            ELSE /\ yaml' = Append(yaml, lines[line + 1])
                 /\ out' = echoed
                 /\ UNCHANGED <<res, err, state, drop, runs>>

\* yamlParser gone wrong: the lines read after the line --- are echoed
yamlParserEcho ==
    /\ res = "running" /\ state = "yamlParser"
    /\ IF drop
       THEN /\ IF ~CanScan
               THEN Finish /\ UNCHANGED <<line, out>>
               ELSE /\ line' = line + 1
                    /\ out' = out \o Ln(lines[line + 1])
                    /\ UNCHANGED <<res, err, state>>
            /\ UNCHANGED <<yaml, drop, runs>>
       ELSE yamlParserCollect(out \o Ln(Text))
    /\ UNCHANGED print
    /\ UNCHANGED <<in, lines, fs, pass, doc1, out1, funVars>>

yamlParser ==
    /\ res = "running" /\ state = "yamlParser"
    /\ IF drop
       THEN /\ IF ~CanScan
               THEN Finish /\ UNCHANGED line
               ELSE line' = line + 1 /\ UNCHANGED <<res, err, state>>
            /\ UNCHANGED <<yaml, drop, out, runs>>
       ELSE yamlParserCollect(out \o Ln(Text))
    /\ UNCHANGED print
    /\ UNCHANGED <<in, lines, fs, pass, doc1, out1, funVars>>

(***************************************************************************)
(* The documents and fetchers the scanner is checked on.                   *)
(***************************************************************************)
textLine == <<"o", "n", "e">>

aGo == <<"a", ".", "g", "o">>

\* [embedmd]:# (a.go)
cmdLine == directive \o <<" ", "(">> \o aGo \o <<")">>

\* [embedmd]:# (a.go noCode)
noCodeLine == directive \o <<" ", "(">> \o aGo \o <<" ">> \o noCode \o <<")">>

\* [embedmd]:# (a.go     the closing parenthesis is missing
badLine == directive \o <<" ", "(">> \o aGo

\* src: a.go
srcLine == <<"s", "r", "c", ":", " ">> \o aGo

LineSet == {textLine, fence, cmdLine, noCodeLine, badLine, embedLine, yamlEnd, srcLine}

\* how the last line of a text ends: unterminated, by a newline, or by a
\* carriage return and a newline
Endings == {<<>>, <<"\n">>, <<"\r", "\n">>}

\* the text of the lines ls, the last of them ending with e
TextOf(ls, e) == IF ls = <<>> THEN <<>> ELSE Join(ls) \o e

\* the first three lines of a document in YAML mode: one, embed:, src: a.go
yamlHead == textLine \o <<"\n">> \o embedLine \o <<"\n">> \o srcLine \o <<"\n">>

\* a fetcher that serves a.go, and one that serves nothing
Fetchers == {{<<aGo, <<"x", "\n">>>>}, {}}

ScanStart(d) ==
    /\ in = d
    /\ lines = ScanLines(d)
    /\ line = 0
    /\ state = "parsingText"
    /\ print = FALSE
    /\ yaml = <<>>
    /\ drop = FALSE
    /\ out = <<>>
    /\ res = "running"
    /\ err = NoErr
    /\ runs = <<>>

\* the scanner is not used
ScanIdle ==
    /\ in = <<>>
    /\ lines = <<>>
    /\ line = 0
    /\ state = "nil"
    /\ print = FALSE
    /\ yaml = <<>>
    /\ drop = FALSE
    /\ out = <<>>
    /\ res = "idle"
    /\ err = NoErr
    /\ runs = <<>>
    /\ fs = {}
    /\ pass = 0
    /\ doc1 = <<>>
    /\ out1 = <<>>

\* no function was applied
NoResult == [st |-> "none"]

FunIdle ==
    /\ fin = <<>>
    /\ fout = NoResult
    /\ fpc = "idle"

\* Process is called on a document: a text of at most MaxLines lines, or a
\* document in YAML mode that goes on with fewer than MaxLines lines
Init ==
    /\ \E k \in 0..MaxLines : \E ls \in [1..k -> LineSet] : \E e \in Endings :
          \/ ScanStart(TextOf(ls, e))
          \/ k < MaxLines /\ ScanStart(yamlHead \o TextOf(ls, e))
    /\ fs \in Fetchers
    /\ pass = 1
    /\ doc1 = <<>>
    /\ out1 = <<>>
    /\ FunIdle

\* Process is called again, on the output of a first pass that succeeded
Rerun ==
    /\ pass = 1 /\ res = "ok"
    /\ in' = out
    /\ lines' = ScanLines(out)
    /\ line' = 0
    /\ state' = "parsingText"
    /\ print' = FALSE
    /\ yaml' = <<>>
    /\ drop' = FALSE
    /\ out' = <<>>
    /\ res' = "running"
    /\ err' = NoErr
    /\ runs' = <<>>
    /\ pass' = 2
    /\ doc1' = in
    /\ out1' = out
    /\ UNCHANGED <<fs, funVars>>

Next == parsingText \/ parsingCmd \/ codeParser \/ yamlParser \/ Rerun

Spec == Init /\ [][Next]_vars

(***************************************************************************)
(* extract applied on its own: the contents are the texts over a and b of  *)
(* at most MaxContent bytes, the limits are unset, empty, the sentinel $,  *)
(* or a pattern, with and without slashes, one of them not compiling.      *)
(***************************************************************************)
Contents == UNION {[1..n -> {"a", "b"}] : n \in 0..MaxContent}

Limits ==
    {NilStr, Ptr(<<>>), Ptr(<<"$">>), Ptr(<<"/", "a", "/">>), Ptr(<<"/", "b", "/">>),
     Ptr(<<"/", "a", "b", "/">>), Ptr(<<"b", "a">>), Ptr(<<"/", "(", "/">>)}

ExtractCommands ==
    {[ZeroCommand EXCEPT !.Start = st, !.End = en, !.IncludeStart = is, !.IncludeEnd = ie,
                         !.yamlMode = ym] :
        st \in Limits, en \in Limits, is \in BOOLEAN, ie \in BOOLEAN, ym \in BOOLEAN}

InitExtract ==
    /\ ScanIdle
    /\ fin \in [b : Contents, c : ExtractCommands]
    /\ fout = NoResult
    /\ fpc = "call"

ExtractCall ==
    /\ fpc = "call"
    /\ fout' = extract(fin.b, fin.c)
    /\ fpc' = "done"
    /\ UNCHANGED <<fin, scanVars>>

NextExtract == ExtractCall

SpecExtract == InitExtract /\ [][NextExtract]_vars

(***************************************************************************)
(* parseCommand applied on its own, and yaml.Unmarshal on the lines of a   *)
(* YAML block.  An argument list is made of at most MaxTokens words with   *)
(* one blank between them, in parentheses; a few texts are not lists.  A   *)
(* YAML block has at most MaxLines lines.                                  *)
(***************************************************************************)
Words ==
    {aGo, <<"a", ".">>, <<"g", "o">>, <<"/", "x", "/">>, <<"s", "/", "a", "/", "b", "/">>,
     <<"s", "/", "b", "/", "/">>, noCode, noStart, noEnd}

\* the words with one blank between them
RECURSIVE JoinBlank(_)
JoinBlank(ws) ==
    IF ws = <<>> THEN <<>>
    ELSE IF Len(ws) = 1 THEN ws[1]
    ELSE ws[1] \o <<" ">> \o JoinBlank(Tail(ws))

\* the argument list of the words ws
ArgList(ws) == <<"(">> \o JoinBlank(ws) \o <<")">>

\* texts with blanks around or inside an empty list, and texts that lack a
\* parenthesis
OddTexts ==
    {<<>>, <<"(">>, <<")">>, <<"(", " ", "\t", ")">>, aGo, <<"(">> \o aGo, aGo \o <<")">>,
     <<" ", "(">> \o aGo \o <<")", "\t">>}

\* includeStart: true and the like
yamlPair(key, v) == key \o <<":", " ">> \o v

YamlLines ==
    {srcLine,
     yamlPair(<<"l", "a", "n", "g">>, <<"g", "o">>),
     yamlPair(<<"t", "y", "p", "e">>, <<"p", "l", "a", "i", "n">>),
     yamlPair(<<"i", "n", "c", "l", "u", "d", "e", "S", "t", "a", "r", "t">>, yamlTrue),
     yamlPair(<<"i", "n", "c", "l", "u", "d", "e", "S", "t", "a", "r", "t">>, yamlFalse),
     yamlPair(<<"i", "n", "c", "l", "u", "d", "e", "E", "n", "d">>, yamlTrue),
     yamlPair(<<"i", "n", "c", "l", "u", "d", "e", "E", "n", "d">>, <<"x">>)}

YamlBlocks == UNION {[1..k -> YamlLines] : k \in 0..MaxLines}

\* relative paths, with directories and with a first directory named s, and
\* URLs
Paths ==
    {aGo,
     <<"d", "/">> \o aGo,
     <<"s", "/">> \o aGo,
     <<"s", "/", "d", "/">> \o aGo,
     <<"d", "/", "s", "/">> \o aGo,
     <<"h", "t", "t", "p", ":", "/", "/", "h", "/">> \o aGo,
     <<"h", "t", "t", "p", "s", ":", "/", "/", "h", "/", "s", "/">> \o aGo}

Langs == {<<"g", "o">>, <<"m", "d">>}

InitParse ==
    /\ ScanIdle
    /\ \/ /\ \E k \in 0..MaxTokens : \E ws \in [1..k -> Words] : fin = ArgList(ws)
          /\ fpc = "call"
       \/ /\ \E p \in Paths : \E l \in Langs : fin = ArgList(<<p, l>>)
          /\ fpc = "call"
       \/ fin \in OddTexts /\ fpc = "call"
       \/ fin \in YamlBlocks /\ fpc = "decode"
    /\ fout = NoResult

ParseCall ==
    /\ fpc = "call"
    /\ fout' = parseCommand(fin)
    /\ fpc' = "done"
    /\ UNCHANGED <<fin, scanVars>>

\* lines 140-141 of yamlParser.parse on the lines of a block
DecodeCall ==
    /\ fpc = "decode"
    /\ fout' = yamlUnmarshal(fin, [ZeroCommand EXCEPT !.yamlMode = TRUE])
    /\ fpc' = "decoded"
    /\ UNCHANGED <<fin, scanVars>>

NextParse == ParseCall \/ DecodeCall

SpecParse == InitParse /\ [][NextParse]_vars

(***************************************************************************)
(* fields applied on its own, on the texts made of at most MaxTokens       *)
(* tokens written one after another.                                       *)
(***************************************************************************)
Tokens ==
    {<<" ">>, <<"\t">>, <<"a">>, <<"g", "o">>, <<"/">>, <<"/", "x", "/">>, <<"s", "/">>,
     <<"s", "/", "a", "/", "b", "/">>, <<"\\">>}

RECURSIVE Concat(_)
Concat(ts) == IF ts = <<>> THEN <<>> ELSE ts[1] \o Concat(Tail(ts))

InitFields ==
    /\ ScanIdle
    /\ \E k \in 0..MaxTokens : \E ts \in [1..k -> Tokens] : fin = Concat(ts)
    /\ fout = NoResult
    /\ fpc = "call"

FieldsCall ==
    /\ fpc = "call"
    /\ fout' = fields(fin)
    /\ fpc' = "done"
    /\ UNCHANGED <<fin, scanVars>>

NextFields == FieldsCall

SpecFields == InitFields /\ [][NextFields]_vars

(***************************************************************************)
(* embedder.runCommand applied on its own, without mounts: the command is  *)
(* the one of the directive (a.go) with some of its options changed, the   *)
(* fetcher serves a.go with a content over x and newline, or nothing.      *)
(***************************************************************************)
RunContents == UNION {[1..n -> {"x", "\n"}] : n \in 0..MaxContent}

BaseCommand == parseCommand(<<" ", "(">> \o aGo \o <<")">>).cmd

\* the rules s/x/y/ and then s/y/x\n/: the second works on what the first wrote
TwoRules ==
    <<[Pattern |-> <<"x">>, Replacement |-> <<"y">>],
      [Pattern |-> <<"y">>, Replacement |-> <<"x", "\n">>]>>

\* the commands: no rule, one rule, the two rules, a rule whose pattern does
\* not compile; no template, a template around the content, a template that
\* does not parse; no start, or the start /x/ (the pattern x of a directive)
RunCommands ==
    {[BaseCommand EXCEPT !.Type = ty, !.yamlMode = ym, !.Trim = tr, !.Substitutions = su,
                         !.Template = te, !.TrimPrefix = tp, !.TrimSuffix = ts,
                         !.Start = st] :
        ty \in {typeCode, typePlain, ""}, ym \in BOOLEAN, tr \in BOOLEAN,
        su \in {<<>>, <<[Pattern |-> <<"x">>, Replacement |-> <<>>]>>, TwoRules,
                <<[Pattern |-> <<"(">>, Replacement |-> <<>>]>>},
        te \in {<<>>, <<"<">> \o contentAction, actionOpen},
        tp \in {<<>>, <<"x">>}, ts \in {<<>>, <<"x">>},
        st \in {NilStr, Ptr(<<"/", "x", "/">>)}}

RunFetchers == {{<<aGo, b>>} : b \in RunContents} \cup {{}}

InitRun ==
    /\ ScanIdle
    /\ fin \in [cmd : RunCommands, files : RunFetchers]
    /\ fout = NoResult
    /\ fpc = "call"

RunCall ==
    /\ fpc = "call"
    /\ fout' = runCommand(fin.cmd, fin.files, <<>>)
    /\ fpc' = "done"
    /\ UNCHANGED <<fin, scanVars>>

NextRun == RunCall

SpecRun == InitRun /\ [][NextRun]_vars

(***************************************************************************)
(* embedder.runCommand with mounts, called twice on the same command, files *)
(* and mount table.  The table is a Go map: the loop of lines 499-502       *)
(* ranges over it in an order that the language leaves open, so each call   *)
(* takes any order of the entries.  fout is the list of what the calls      *)
(* fetched and returned.                                                    *)
(***************************************************************************)
\* the tables: at most two entries, one prefix for a token; the tokens are
\* $a and $ab, one a prefix of the other, and $b
MountTables ==
    {m \in SUBSET ({<<"$", "a">>, <<"$", "a", "b">>, <<"$", "b">>} \X {<<"d">>, <<"e">>}) :
        /\ Cardinality(m) <= 2
        /\ \A e1 \in m : \A e2 \in m : e1[1] = e2[1] => e1 = e2}

\* the orders in which a range over the map m can yield its entries
Orders(m) ==
    {o \in [1..Cardinality(m) -> m] : \A e \in m : \E i \in DOMAIN o : o[i] = e}

\* the paths a.go, $a/f, $ab/f, $b/f and $b$a/f on fetchers that serve d/f,
\* e/f and db/f, d/f alone, or nothing
InitMounts ==
    /\ ScanIdle
    /\ fin \in [cmd : {[BaseCommand EXCEPT !.Path = p] :
                          p \in {aGo, <<"$", "a", "/", "f">>, <<"$", "a", "b", "/", "f">>,
                                 <<"$", "b", "/", "f">>, <<"$", "b", "$", "a", "/", "f">>}},
                files : {{<<<<"d", "/", "f">>, <<"x", "\n">>>>,
                          <<<<"e", "/", "f">>, <<"\n">>>>,
                          <<<<"d", "b", "/", "f">>, <<"x">>>>},
                         {<<<<"d", "/", "f">>, <<"x", "\n">>>>},
                         {}},
                mounts : MountTables]
    /\ fout = <<>>
    /\ fpc = "first"

\* one call of runCommand: the range over the mounts yields the order o
MountCall ==
    /\ fpc \in {"first", "second"}
    /\ \E o \in Orders(fin.mounts) :
          fout' = Append(fout, [path |-> resolveMounts(fin.cmd.Path, o),
                                r |-> runCommand(fin.cmd, fin.files, o)])
    /\ fpc' = IF fpc = "first" THEN "second" ELSE "done"
    /\ UNCHANGED <<fin, scanVars>>

NextMounts == MountCall

SpecMounts == InitMounts /\ [][NextMounts]_vars

(***************************************************************************)
(* embed of the command line, without -d: the document is read from        *)
(* standard input and Process writes to standard output, or it is a file   *)
(* given as a path, Process writes to a buffer and processFile copies the   *)
(* buffer to standard output or, with -w, over the file.  With -w and no    *)
(* path embed returns before any document is processed.  fin holds the      *)
(* arguments, fout the standard output and the file that processFile left.  *)
(***************************************************************************)
InitEmbed ==
    /\ \E k \in 0..MaxLines : \E ls \in [1..k -> LineSet] : \E e \in Endings :
          \/ ScanStart(TextOf(ls, e))
          \/ k < MaxLines /\ ScanStart(yamlHead \o TextOf(ls, e))
    /\ fs \in Fetchers
    /\ pass = 0
    /\ doc1 = <<>>
    /\ out1 = <<>>
    /\ fin \in {[stdin |-> TRUE, rewrite |-> FALSE],
                [stdin |-> FALSE, rewrite |-> FALSE],
                [stdin |-> FALSE, rewrite |-> TRUE]}
    /\ fout = [stdout |-> <<>>, file |-> in]
    /\ fpc = "process"

\* file.WriteAt(b, 0): the bytes of b over the first bytes of the file
WriteAt(file, b) == b \o From(file, Min(Len(file), Len(b)))

\* file.Truncate(n)
Truncate(file, n) == Slice(file, 0, Min(Len(file), n))

\* lines 176-204 of processFile and line 122 of embed, Process having returned
embedReturn ==
    /\ fpc = "process" /\ res # "running"
    /\ fpc' = "done"
    /\ IF res # "ok" \/ fin.stdin THEN fout' = fout
       ELSE IF fin.rewrite
       THEN fout' = [fout EXCEPT !.file = Truncate(WriteAt(fout.file, out), Len(out))]
       ELSE fout' = [fout EXCEPT !.stdout = out]
    /\ UNCHANGED <<fin, scanVars>>

NextEmbed == parsingText \/ parsingCmd \/ codeParser \/ yamlParser \/ embedReturn

SpecEmbed == InitEmbed /\ [][NextEmbed]_vars

(***************************************************************************)
(* Properties.                                                             *)
(***************************************************************************)

\* the pattern p occurs in b at offset i
Occurs(p, b, i) == i + Len(p) <= Len(b) /\ SubSeq(b, i + 1, i + Len(p)) = p

\* offset i is the first occurrence of p in b at or after offset lo
FirstAt(p, b, lo, i) ==
    /\ i >= lo
    /\ Occurs(p, b, i)
    /\ \A j \in lo..(i - 1) : ~Occurs(p, b, j)

\* a limit that extract accepts as a pattern, and the pattern it stands for
WellFormed(s, ym) == ym \/ (Len(s) > 2 /\ s[1] = "/" /\ s[Len(s)] = "/")

PatternOf(s, ym) == IF ym THEN s ELSE SubSeq(s, 2, Len(s) - 1)

\* the pattern is made of literal characters only
Literal(p) == \A k \in 1..Len(p) : p[k] \notin {"(", ")", "$"}

\* the content served for a.go in the input of a run
RunContent == (CHOOSE f \in fin.files : TRUE)[2]

\* the start of the command is set and matches nowhere in the content served:
\* in YAML mode the pattern is /x/ as written, in a directive it is x
ExtractFails ==
    /\ ~fin.cmd.Start.nil
    /\ \A i \in 0..Len(RunContent) :
          ~Occurs(PatternOf(fin.cmd.Start.s, fin.cmd.yamlMode), RunContent, i)

\* the content extracted from the file: all of it, or the match of the start
Extracted ==
    IF fin.cmd.Start.nil THEN RunContent ELSE PatternOf(fin.cmd.Start.s, fin.cmd.yamlMode)

\* the content of a run after the formatting steps, as runCommand computes it
Formatted ==
    LET r == replace(ensureNewline(Extracted), fin.cmd.Substitutions).b
        t == trimSteps(r, fin.cmd)
    IN IF fin.cmd.Template # <<>> THEN applyTemplate(t, fin.cmd.Template).b ELSE t

EndsWithNewline(b) == b # <<>> /\ b[Len(b)] = "\n"

\* C4: a run of type Code writes the opening fence with the language, a
\* newline, the formatted content, a newline if and only if the content does
\* not end with one, and the closing fence line, which so always starts a
\* line; a run of type Plain writes the formatted content alone, followed by
\* a newline (when missing) only in YAML mode.  The command of (a.go) on a
\* file "x\n" writes the fence of go, x and the closing fence.
OutputFraming ==
    (fpc = "done" /\ fout.st = "ok") =>
        /\ fin.cmd.Type = typeCode =>
              /\ fout.w = fence \o fin.cmd.Lang \o <<"\n">> \o Formatted
                          \o (IF EndsWithNewline(Formatted) THEN <<>> ELSE <<"\n">>)
                          \o fence \o <<"\n">>
              /\ fout.w[Len(fout.w) - 4] = "\n"
        /\ fin.cmd.Type = typePlain =>
              fout.w = Formatted \o (IF fin.cmd.yamlMode /\ ~EndsWithNewline(Formatted)
                                     THEN <<"\n">> ELSE <<>>)
        /\ (fin.cmd = BaseCommand /\ RunContent = <<"x", "\n">>) =>
              fout.w = fence \o <<"g", "o", "\n", "x", "\n">> \o fence \o <<"\n">>

\* a Code run whose formatted content is not empty and lacks its last newline
OutputFramingWitness ==
    /\ fpc = "done" /\ fout.st = "ok"
    /\ fin.cmd.Type = typeCode
    /\ Formatted # <<>> /\ ~EndsWithNewline(Formatted)

\* C7: with start a pattern that is not empty and end unset, extract returns
\* the bytes of the first match of start in the whole content, whatever
\* includeStart is; if start matches nowhere it fails with "could not match"
\* naming the pattern and returns no content.  (Literal patterns.)
StartOnly ==
    (/\ fpc = "done"
     /\ ~fin.c.Start.nil /\ fin.c.End.nil
     /\ WellFormed(fin.c.Start.s, fin.c.yamlMode)
     /\ PatternOf(fin.c.Start.s, fin.c.yamlMode) # <<>>
     /\ Literal(PatternOf(fin.c.Start.s, fin.c.yamlMode))) =>
        LET p == PatternOf(fin.c.Start.s, fin.c.yamlMode)
        IN IF \E i \in 0..Len(fin.b) : Occurs(p, fin.b, i)
           THEN /\ fout.st = "ok"
                /\ \E i \in 0..Len(fin.b) :
                      FirstAt(p, fin.b, 0, i) /\ fout.b = SubSeq(fin.b, i + 1, i + Len(p))
           ELSE /\ fout.st = "error"
                /\ fout.err = "could not match"
                /\ fout.arg = fin.c.Start.s
                /\ fout.b = <<>>

\* start alone, not including the start, and matched after the first byte
StartOnlyWitness ==
    /\ fpc = "done"
    /\ ~fin.c.Start.nil /\ fin.c.End.nil /\ ~fin.c.IncludeStart /\ ~fin.c.yamlMode
    /\ fin.c.Start.s = <<"/", "a", "b", "/">>
    /\ fin.b = <<"b", "a", "b">>
    /\ fout.st = "ok" /\ fout.b = <<"a", "b">>

\* the offset at which the result of extract begins, start matching at i
BeginOffset(i) ==
    IF fin.c.IncludeStart THEN i ELSE i + Len(PatternOf(fin.c.Start.s, fin.c.yamlMode))

\* C8: with start and end set, the result begins at the start offset of the
\* first match of start if includeStart, else at its end offset; the end
\* pattern is searched from that point on only; the result ends at the end
\* offset of that match if includeEnd, else at its start offset; with end
\* the sentinel $ it runs to the end of the content.  The result is a
\* contiguous piece of the content.  (Literal patterns.)
StartAndEnd ==
    (/\ fpc = "done"
     /\ ~fin.c.Start.nil /\ ~fin.c.End.nil
     /\ WellFormed(fin.c.Start.s, fin.c.yamlMode)
     /\ PatternOf(fin.c.Start.s, fin.c.yamlMode) # <<>>
     /\ Literal(PatternOf(fin.c.Start.s, fin.c.yamlMode))
     /\ \E i \in 0..Len(fin.b) : Occurs(PatternOf(fin.c.Start.s, fin.c.yamlMode), fin.b, i)
     /\ \/ fin.c.End.s = <<"$">>
        \/ /\ WellFormed(fin.c.End.s, fin.c.yamlMode)
           /\ Literal(PatternOf(fin.c.End.s, fin.c.yamlMode))) =>
        LET p == PatternOf(fin.c.Start.s, fin.c.yamlMode)
            q == PatternOf(fin.c.End.s, fin.c.yamlMode)
            i == CHOOSE k \in 0..Len(fin.b) : FirstAt(p, fin.b, 0, k)
            from == BeginOffset(i)
        IN IF fin.c.End.s = <<"$">>
           THEN fout.st = "ok" /\ fout.b = SubSeq(fin.b, from + 1, Len(fin.b))
           ELSE IF \E j \in from..Len(fin.b) : Occurs(q, fin.b, j)
           THEN /\ fout.st = "ok"
                /\ \E j \in from..Len(fin.b) :
                      /\ FirstAt(q, fin.b, from, j)
                      /\ fout.b = SubSeq(fin.b, from + 1,
                                         IF fin.c.IncludeEnd THEN j + Len(q) ELSE j)
           ELSE /\ fout.st = "error"
                /\ fout.err = "could not match"
                /\ fout.arg = fin.c.End.s

\* the end pattern also occurs before the start match, and is not taken there
StartAndEndWitness ==
    /\ fpc = "done" /\ ~fin.c.yamlMode
    /\ fin.c.Start.s = <<"/", "a", "/">> /\ fin.c.End.s = <<"/", "b", "/">>
    /\ fin.c.IncludeStart /\ ~fin.c.IncludeEnd
    /\ fin.b = <<"b", "a", "b">>
    /\ fout.st = "ok" /\ fout.b = <<"a">>

\* C9: with start and end unset, extract returns the content unchanged, for
\* every content, the empty one too.
NoLimits ==
    (fpc = "done" /\ fin.c.Start.nil /\ fin.c.End.nil) =>
        (fout.st = "ok" /\ fout.b = fin.b)

\* no limits on the empty content
NoLimitsWitness ==
    /\ fpc = "done" /\ fin.c.Start.nil /\ fin.c.End.nil
    /\ fin.b = <<>>
    /\ fout.st = "ok"

\* the argument text is a list in parentheses with no field in it
EmptyList(s) ==
    /\ Len(TrimSpace(s)) >= 2
    /\ TrimSpace(s)[1] = "(" /\ TrimSpace(s)[Len(TrimSpace(s))] = ")"
    /\ TrimSpace(SubSeq(TrimSpace(s), 2, Len(TrimSpace(s)) - 1)) = <<>>

\* C10: parseCommand returns an error or a command whose path is not empty,
\* and it fails in no other way; an argument list with no field fails with
\* "missing file name".
PathInvariant ==
    fpc = "done" =>
        /\ \/ fout.st = "error"
           \/ fout.st = "ok" /\ fout.cmd.Path # <<>>
        /\ EmptyList(fin) => (fout.st = "error" /\ fout.err = "missing file name")

\* C1: when process succeeds on a document with output O, process on O
\* succeeds and yields O again.
Idempotence ==
    (pass = 2 /\ res # "running") => (res = "ok" /\ out = out1)

IsFence(l) == HasPrefix(l, fence)

IsDirective(l) == HasPrefix(l, directive)

\* C2: inside a fenced block opened while scanning text, every step echoes
\* the line read last unchanged, and the closing fence line with it when it
\* is read; no command is run and no line of the block is taken as a
\* directive, whatever it starts with.
FencedPassThrough ==
    [][(res = "running" /\ state = "codeParser" /\ print) =>
          /\ runs' = runs
          /\ state' \in {"codeParser", "parsingText", "nil"}
          /\ out' = out \o lines[line] \o <<"\n">>
                    \o (IF line' = line + 1 /\ IsFence(lines[line'])
                        THEN lines[line'] \o <<"\n">> ELSE <<>>)
          /\ (line' = line + 1 /\ ~IsFence(lines[line'])) => (state' = "codeParser" /\ print')
          /\ (line' = line + 1 /\ IsFence(lines[line'])) => state' = "parsingText"]_vars

\* a line that looks like a directive is the current line of an echoed block
FencedPassThroughWitness ==
    /\ res = "running" /\ state = "codeParser" /\ print
    /\ IsDirective(lines[line])
    /\ line < Len(lines)

\* line i belongs to a fenced block that starts right after an executed
\* directive: from the fence on the next line through the next fence line
Discarded(i) ==
    \E k \in DOMAIN runs :
        /\ runs[k].line + 1 <= i
        /\ IsFence(lines[runs[k].line + 1])
        /\ \A j \in (runs[k].line + 2)..(i - 1) : ~IsFence(lines[j])

\* what the command run on line i wrote, if a command was run there
WrittenAt(i) ==
    IF \E k \in DOMAIN runs : runs[k].line = i
    THEN runs[CHOOSE k \in DOMAIN runs : runs[k].line = i].w
    ELSE <<>>

\* the lines from i on, each once and in order, the discarded ones left out,
\* each followed by what the command run on it wrote
RECURSIVE ConservedFrom(_)
ConservedFrom(i) ==
    IF i > Len(lines) THEN <<>>
    ELSE (IF Discarded(i) THEN <<>> ELSE lines[i] \o <<"\n">>)
         \o WrittenAt(i) \o ConservedFrom(i + 1)

\* the lines from i on, each terminated by a newline
RECURSIVE EchoFrom(_)
EchoFrom(i) == IF i > Len(lines) THEN <<>> ELSE lines[i] \o <<"\n">> \o EchoFrom(i + 1)

\* C3: for a document that does not enter YAML mode and is processed without
\* error, the output is the lines of the input, each once, in order and
\* terminated by a newline, without the lines of the fenced blocks that start
\* right after an executed directive, and with nothing else than what the
\* command runs wrote; a document with no directive line is reproduced line
\* for line.  (The lines are those the scanner yields.)
LineConservation ==
    (res = "ok" /\ ~drop) =>
        /\ lines = ScanLines(in)
        /\ out = ConservedFrom(1)
        /\ (\A i \in 1..Len(lines) : ~IsDirective(lines[i])) => out = EchoFrom(1)

\* a block after an executed directive was discarded and a later line echoed
LineConservationWitness ==
    /\ res = "ok" /\ ~drop
    /\ Len(lines) >= 4
    /\ Discarded(Len(lines) - 1)
    /\ ~Discarded(Len(lines))
    /\ ~IsDirective(lines[Len(lines)])

\* C5: when the input is exhausted, the scanner ends without error if it is
\* scanning text, fails with "unbalanced code section" if it is inside a
\* fenced block, echoed or discarded, and fails with "unbalanced yaml
\* section" if it is inside a YAML block before its --- line; both errors
\* carry the number of the last line of the document.
EndOfInput ==
    [][(res = "running" /\ line = Len(lines)) =>
          /\ state = "parsingText" => (res' = "ok" /\ out' = out)
          /\ state = "codeParser" =>
                /\ res' = "error"
                /\ err'.msg = "unbalanced code section"
                /\ err'.line = Len(lines)
          /\ (state = "yamlParser" /\ ~drop) =>
                /\ res' = "error"
                /\ err'.msg = "unbalanced yaml section"
                /\ err'.line = Len(lines)]_vars

\* the input ended inside a block that was being discarded after a directive
EndOfInputWitness ==
    /\ res = "error" /\ err.msg = "unbalanced code section"
    /\ ~print /\ runs # <<>>
    /\ Len(lines) >= 3

ScanErrors == {"unbalanced code section", "unbalanced yaml section"}

\* the state of a failed pass whose error came from parsing or running the
\* inline directive on line l
InlineFailure(l) ==
    /\ IsDirective(lines[l])
    /\ HasSuffix(out, lines[l] \o <<"\n">>)
    /\ IF parseCommand(SubSeq(lines[l], Len(directive) + 1, Len(lines[l]))).st = "error"
       THEN /\ err.msg = parseCommand(SubSeq(lines[l], Len(directive) + 1, Len(lines[l]))).err
            /\ \A k \in DOMAIN runs : runs[k].line # l
       ELSE /\ runs # <<>>
            /\ runs[Len(runs)].line = l
            /\ runs[Len(runs)].st = "error"
            /\ err.msg \in {"could not read", "could not extract content from",
                            "could not replace content from",
                            "could not apply template to content from"}

\* the same for the YAML command decoded and run on the line --- numbered l
YamlFailure(l) ==
    /\ l > 2 /\ lines[2] = embedLine /\ lines[l] = yamlEnd
    /\ HasSuffix(out, lines[l] \o <<"\n", "\n">>)
    /\ runs # <<>> => (runs[Len(runs)].line = l /\ runs[Len(runs)].st = "error")

\* C6: when parsing or running a directive fails, process returns that error
\* with the number of the line being handled (the line of an inline
\* directive); every command run before it had succeeded, and after the
\* error no command is run, no line is read and nothing is written.
FirstErrorFatal ==
    /\ [](res = "error" =>
            /\ err.line = line
            /\ \A k \in 1..(Len(runs) - 1) : runs[k].st = "ok"
            /\ err.msg \notin ScanErrors => (InlineFailure(line) \/ YamlFailure(line)))
    /\ [][res = "error" => UNCHANGED <<out, line, runs, res, err>>]_vars

\* the command of the directive on line 2 failed and a third line is left unread
FirstErrorFatalWitness ==
    /\ res = "error" /\ err.msg = "could not read"
    /\ err.line = 2 /\ Len(lines) = 3
    /\ IsDirective(lines[2])
    /\ Len(runs) = 1

\* the text between the parentheses of the argument text s
Inside(s) == SubSeq(TrimSpace(s), 2, Len(TrimSpace(s)) - 1)

\* the argument text is in parentheses once trimmed
Parenthesized(s) ==
    /\ Len(TrimSpace(s)) >= 2
    /\ TrimSpace(s)[1] = "(" /\ TrimSpace(s)[Len(TrimSpace(s))] = ")"

\* the fields of the argument list fin, when it is one and its fields are balanced
Listed == fpc = "done" /\ Parenthesized(fin) /\ fields(Inside(fin)).err = ""

\* the index of the first field after the path that is no flag
AfterFlags(F) ==
    CHOOSE j \in 2..(Len(F) + 1) :
        /\ j <= Len(F) => F[j].plain \notin {noCode, noStart, noEnd}
        /\ \A i \in 2..(j - 1) : F[i].plain \in {noCode, noStart, noEnd}

\* the field after the path and the flags is a language
LangGiven(F) ==
    /\ AfterFlags(F) <= Len(F)
    /\ F[AfterFlags(F)].plain # <<>>
    /\ F[AfterFlags(F)].plain[1] # "/"

\* the offsets of the dots of the last element of the path
Dots(path) == {i \in 1..Len(path) : path[i] = "." /\ \A j \in i..Len(path) : path[j] # "/"}

\* the extension of the path without its dot
Extension(path) ==
    SubSeq(path, (CHOOSE i \in Dots(path) : \A j \in Dots(path) : j <= i) + 1, Len(path))

\* C11: every command parseCommand returns has a language that is not empty:
\* the field after the path and the flags when it does not begin with a
\* slash, else the extension of the path without the dot; without a language
\* field and without an extension parseCommand fails with "language is
\* required when file has no extension".
LanguageInvariant ==
    /\ (fpc = "done" /\ fout.st = "ok") => fout.cmd.Lang # <<>>
    /\ (Listed /\ fields(Inside(fin)).args # <<>>) =>
          LET F == fields(Inside(fin)).args
          IN IF LangGiven(F)
             THEN fout.st = "ok" => fout.cmd.Lang = F[AfterFlags(F)].plain
             ELSE IF Dots(F[1].plain) = {}
             THEN /\ fout.st = "error"
                  /\ fout.err = "language is required when file has no extension"
             ELSE fout.st = "ok" => fout.cmd.Lang = Extension(F[1].plain)

AfterLang(F) == IF LangGiven(F) THEN AfterFlags(F) + 1 ELSE AfterFlags(F)

\* the index of the first field after the substitutions that follow them
AfterSubs(F) ==
    CHOOSE m \in AfterLang(F)..(Len(F) + 1) :
        /\ m <= Len(F) => ~F[m].subs
        /\ \A i \in AfterLang(F)..(m - 1) : F[i].subs

\* the language of the command is settled: given, or taken from the path
LangSettled(F) ==
    LangGiven(F) \/ \E i \in Dots(F[1].plain) : i > 1

RECURSIVE EchoRange(_, _)
EchoRange(i, j) == IF i > j THEN <<>> ELSE lines[i] \o <<"\n">> \o EchoRange(i + 1, j)

\* the second line is embed: and a later line is ---
YamlDocument ==
    /\ Len(lines) >= 3
    /\ lines[2] = embedLine
    /\ \E l \in 3..Len(lines) : lines[l] = yamlEnd

\* the number of the first line --- after the line embed:
YamlEndLine ==
    CHOOSE l \in 3..Len(lines) :
        lines[l] = yamlEnd /\ \A j \in 3..(l - 1) : lines[j] # yamlEnd

\* the original statement of C14: once the line --- is seen and the command
\* has run, every later line is passed through to the output.
YamlRestPassedThrough ==
    (res = "ok" /\ drop) =>
        out = EchoRange(1, YamlEndLine) \o <<"\n">> \o runs[1].w
              \o EchoRange(YamlEndLine + 1, Len(lines))

\* C14 (amended): once the line --- that ends the YAML block is seen and the
\* decoded command has run, every later line of the document is read and
\* discarded: nothing more is written, no command is run and the scanner
\* stays in the YAML state until the input ends, which is a clean end.
YamlRestDropped ==
    [][(res = "running" /\ state = "yamlParser" /\ drop) =>
          /\ out' = out
          /\ runs' = runs
          /\ IF line < Len(lines)
             THEN line' = line + 1 /\ state' = "yamlParser" /\ res' = "running" /\ drop'
             ELSE line' = line /\ res' = "ok"]_vars

\* a directive line after the line ---: it is discarded and not run
YamlRestDroppedWitness ==
    /\ res = "ok" /\ drop /\ pass = 1
    /\ Len(lines) = YamlEndLine + 1
    /\ IsDirective(lines[Len(lines)])
    /\ Len(runs) = 1 /\ runs[1].st = "ok" /\ runs[1].line = YamlEndLine

\* the command decoded from the lines between embed: and the first ---
YamlDecoded ==
    yamlUnmarshal(SubSeq(lines, 3, YamlEndLine - 1), [ZeroCommand EXCEPT !.yamlMode = TRUE])

\* the original statement of C15: for a document whose second line is
\* embed: and that has a later line ---, the output is the lines through
\* that line, an empty line and what the one run of the decoded command
\* writes.
YamlOutputShapeAny ==
    (res # "running" /\ YamlDocument) =>
        /\ Len(runs) = 1
        /\ runs[1].cmd = YamlDecoded.cmd
        /\ out = EchoRange(1, YamlEndLine) \o <<"\n">> \o runs[1].w

\* C15 (amended): for a document whose first line is neither a directive nor
\* the start of a fenced block, whose second line is embed: and that has a
\* later line ---, the output is the lines from the first through that ---
\* line, each as it is, an empty line, and what the run of the decoded
\* command writes; the command is decoded from the lines between embed: and
\* --- and is run once, on the line ---, or not at all when the YAML does not
\* decode, which is an error.
YamlOutputShape ==
    (res # "running" /\ YamlDocument /\ ~IsDirective(lines[1]) /\ ~IsFence(lines[1])) =>
        /\ out = EchoRange(1, YamlEndLine) \o <<"\n">>
                 \o (IF runs # <<>> THEN runs[1].w ELSE <<>>)
        /\ IF YamlDecoded.err = ""
           THEN /\ Len(runs) = 1
                /\ runs[1].cmd = YamlDecoded.cmd
                /\ runs[1].line = YamlEndLine
                /\ res = "ok" <=> runs[1].st = "ok"
           ELSE runs = <<>> /\ res = "error"

\* a YAML document of the first pass whose command ran and wrote the file
YamlOutputShapeWitness ==
    /\ res = "ok" /\ pass = 1 /\ YamlDocument
    /\ lines[1] = textLine
    /\ Len(runs) = 1 /\ runs[1].st = "ok" /\ runs[1].w # <<>>
    /\ Len(lines) > YamlEndLine

\* the YAML block of the document gives the key type
YamlTypeGiven ==
    \E j \in 3..(YamlEndLine - 1) : yamlKey(lines[j]) = <<"t", "y", "p", "e">>

\* C16: a YAML block that gives no type is run with type code: what it
\* writes is wrapped in the opening fence with the language and the closing
\* fence.
YamlDefaultType ==
    \A k \in DOMAIN runs :
        (runs[k].cmd.yamlMode /\ runs[k].st = "ok" /\ ~YamlTypeGiven) =>
            /\ runs[k].cmd.Type = typeCode
            /\ HasPrefix(runs[k].w, fence \o runs[k].cmd.Lang \o <<"\n">>)
            /\ HasSuffix(runs[k].w, fence \o <<"\n">>)

\* the rules applied one after another, each to the result of the one before
RECURSIVE RulesInOrder(_, _)
RulesInOrder(b, rules) ==
    IF rules = <<>> THEN b
    ELSE RulesInOrder(ReplaceAll(b, rules[1].Pattern, rules[1].Replacement), Tail(rules))

\* the six stages of the content of a run, the file being served
Stage1 == IF Extracted # <<>> /\ ~EndsWithNewline(Extracted)
          THEN Extracted \o <<"\n">> ELSE Extracted

Stage2 == RulesInOrder(Stage1, fin.cmd.Substitutions)

Stage3 == IF fin.cmd.Trim THEN TrimSpace(Stage2) ELSE Stage2

Stage4 ==
    LET p == IF fin.cmd.TrimPrefix # <<>> /\ HasPrefix(Stage3, fin.cmd.TrimPrefix)
             THEN SubSeq(Stage3, Len(fin.cmd.TrimPrefix) + 1, Len(Stage3)) ELSE Stage3
    IN IF fin.cmd.TrimSuffix # <<>> /\ HasSuffix(p, fin.cmd.TrimSuffix)
       THEN SubSeq(p, 1, Len(p) - Len(fin.cmd.TrimSuffix)) ELSE p

Stage5 == IF fin.cmd.Trim THEN TrimSpace(Stage4) ELSE Stage4

Stage6 == IF fin.cmd.Template # <<>> THEN applyTemplate(Stage5, fin.cmd.Template).b ELSE Stage5

\* C17: a run whose file is fetched and extracted transforms the content in
\* this order: a newline is added when the content is not empty and lacks
\* one; the rules are applied in declared order, each to the result of the
\* one before; the content is trimmed if trim is set; trimPrefix and
\* trimSuffix are removed if present; the content is trimmed again if trim is
\* set; the template is rendered if not empty.  What is written is that
\* content in the framing of the type.  A rule that does not compile aborts
\* the run with "could not replace content", a failing template with "could
\* not apply template", and nothing is written.
PipelineOrder ==
    (fpc = "done" /\ fin.files # {} /\ ~ExtractFails) =>
        IF \E k \in DOMAIN fin.cmd.Substitutions :
               ~regexpCompiles(fin.cmd.Substitutions[k].Pattern)
        THEN /\ fout.st = "error" /\ fout.w = <<>>
             /\ fout.err = "could not replace content from"
        ELSE IF fin.cmd.Template # <<>> /\ applyTemplate(Stage5, fin.cmd.Template).err # ""
        THEN /\ fout.st = "error" /\ fout.w = <<>>
             /\ fout.err = "could not apply template to content from"
        ELSE /\ fout.st = "ok"
             /\ fout.w = writeOutput(Stage6, fin.cmd)
             /\ (fin.cmd.Type = typePlain /\ ~fin.cmd.yamlMode) => fout.w = Stage6

\* a run in which each of the six steps changes the content
PipelineOrderWitness ==
    /\ fpc = "done" /\ fout.st = "ok" /\ fin.files # {}
    /\ fin.cmd.Substitutions = TwoRules
    /\ Stage1 # Extracted /\ Stage2 # Stage1 /\ Stage3 # Stage2
    /\ Stage4 # Stage3 /\ Stage5 # Stage4 /\ Stage6 # Stage5

\* start is unset or the empty string
StartAbsent == fin.c.Start.nil \/ fin.c.Start.s = <<>>

\* C18: with start unset or the empty string and end a pattern, extract
\* returns the content from its first byte up to the end offset of the first
\* match of end in the whole content if includeEnd, else up to its start
\* offset, or the error "could not match"; with start the empty string and
\* end unset or $ it returns the whole content.  In none of these cases does
\* extract end other than by returning.  (Literal patterns.)
StartOptional ==
    (fpc = "done" /\ StartAbsent /\ ~(fin.c.Start.nil /\ fin.c.End.nil)) =>
        /\ fout.st # "panic"
        /\ (fin.c.End.nil \/ fin.c.End.s = <<"$">>) =>
              (fout.st = "ok" /\ fout.b = fin.b)
        /\ (/\ ~fin.c.End.nil /\ fin.c.End.s # <<"$">>
            /\ WellFormed(fin.c.End.s, fin.c.yamlMode)
            /\ PatternOf(fin.c.End.s, fin.c.yamlMode) # <<>>
            /\ Literal(PatternOf(fin.c.End.s, fin.c.yamlMode))) =>
              LET q == PatternOf(fin.c.End.s, fin.c.yamlMode)
              IN IF \E j \in 0..Len(fin.b) : Occurs(q, fin.b, j)
                 THEN /\ fout.st = "ok"
                      /\ \E j \in 0..Len(fin.b) :
                            /\ FirstAt(q, fin.b, 0, j)
                            /\ fout.b = SubSeq(fin.b, 1, IF fin.c.IncludeEnd
                                                         THEN j + Len(q) ELSE j)
                 ELSE /\ fout.st = "error"
                      /\ fout.err = "could not match"
                      /\ fout.arg = fin.c.End.s

\* the text without its white space
RECURSIVE NoSpace(_)
NoSpace(s) ==
    IF s = <<>> THEN <<>>
    ELSE (IF Head(s) \in Space THEN <<>> ELSE <<Head(s)>>) \o NoSpace(Tail(s))

\* the slash at position k of s is not preceded by a backslash
Unescaped(s, k) == s[k] = "/" /\ (k = 1 \/ s[k - 1] # "\\")

\* the texts of the fields, one after another
RECURSIVE PlainTexts(_)
PlainTexts(args) == IF args = <<>> THEN <<>> ELSE args[1].plain \o PlainTexts(Tail(args))

\* C19: fields either fails with "unbalanced /", which takes a slash in the
\* text, or returns the fields in their order of appearance with none lost:
\* a field that starts with / runs to the next slash not preceded by a
\* backslash and is left as written, and any other field that is no
\* substitution ends at the next white space character, so holds none.
FieldsTokenizer ==
    fpc = "done" =>
        /\ fout.err \in {"", "unbalanced /"}
        /\ fout.err # "" => \E k \in DOMAIN fin : fin[k] = "/"
        /\ fout.err = "" =>
              /\ \A k \in DOMAIN fout.args :
                    LET f == fout.args[k].plain
                    IN ~fout.args[k].subs =>
                          /\ f # <<>>
                          /\ IF f[1] = "/"
                             THEN /\ Len(f) >= 2 /\ Unescaped(f, Len(f))
                                  /\ \A j \in 2..(Len(f) - 1) : ~Unescaped(f, j)
                             ELSE \A j \in DOMAIN f : f[j] \notin Space
              /\ (\A k \in DOMAIN fout.args : ~fout.args[k].subs) =>
                    NoSpace(PlainTexts(fout.args)) = NoSpace(fin)

\* the line of the last run so far, 0 when no command has run
LastRunLine == IF runs = <<>> THEN 0 ELSE runs[Len(runs)].line

\* C20: commands are run one at a time, in the order of their lines; the run
\* of a directive is made with the scanner on the directive line, and the
\* step that makes it writes the directive line, then all that the run
\* wrote, and only then at most the one line read after the run.
RunOrdering ==
    [][(runs' # runs /\ pass' = pass) =>
          /\ Len(runs') = Len(runs) + 1
          /\ SubSeq(runs', 1, Len(runs)) = runs
          /\ runs'[Len(runs')].line > LastRunLine
          /\ state = "parsingCmd" =>
                LET r == runs'[Len(runs')]
                    written == out \o lines[line] \o <<"\n">> \o r.w
                IN /\ r.line = line
                   /\ IsDirective(lines[line])
                   /\ r.w = run(r.cmd).w
                   /\ \/ out' = written /\ line' = line
                      \/ /\ line' = line + 1
                         /\ out' \in {written, written \o lines[line'] \o <<"\n">>}]_vars

\* two directives of one document have run, a line of text between them
RunOrderingWitness ==
    /\ pass = 1 /\ res = "ok"
    /\ Len(runs) = 2
    /\ runs[1].st = "ok" /\ runs[2].st = "ok" /\ runs[1].w # <<>>
    /\ ~runs[1].cmd.yamlMode /\ ~runs[2].cmd.yamlMode
    /\ runs[2].line = runs[1].line + 2
    /\ lines[runs[1].line + 1] = textLine

\* line i lies outside every fenced block: it is no fence line and the fence
\* lines before it pair up as the opening and the closing of blocks
OutsideBlocks(i) ==
    /\ ~IsFence(lines[i])
    /\ Cardinality({j \in 1..(i - 1) : IsFence(lines[j])}) % 2 = 0

\* the number of runs made on line i
RunsOn(i) == Cardinality({k \in DOMAIN runs : runs[k].line = i})

\* C21: in a document that does not enter YAML mode and is processed without
\* error, the command runner is invoked exactly once for every line that
\* starts with the directive prefix and lies outside every fenced block, and
\* for no other line, two directives on consecutive lines included.
EveryDirectiveRun ==
    (res = "ok" /\ ~drop) =>
        \A i \in 1..Len(lines) :
            RunsOn(i) = IF IsDirective(lines[i]) /\ OutsideBlocks(i) THEN 1 ELSE 0

\* the errors runCommand returns
RunErrors ==
    {"could not read", "could not extract content from",
     "could not replace content from", "could not apply template to content from"}

\* every rule of the command compiles
RulesCompile ==
    \A k \in DOMAIN fin.cmd.Substitutions : regexpCompiles(fin.cmd.Substitutions[k].Pattern)

\* C22: runCommand writes only after fetching, extraction, substitution and
\* template rendering have all succeeded: a run that returns an error, which
\* is one of could not read, could not extract, could not replace and could
\* not apply template, has written nothing, the opening fence included; a
\* missing file gives the first error, a start that does not match the
\* second, a rule that does not compile the third.
FailedRunWritesNothing ==
    fpc = "done" =>
        /\ fout.st \in {"ok", "error"}
        /\ fout.st = "error" => (fout.w = <<>> /\ fout.err \in RunErrors)
        /\ fin.files = {} => (fout.st = "error" /\ fout.err = "could not read")
        /\ (fin.files # {} /\ ExtractFails) =>
              (fout.st = "error" /\ fout.err = "could not extract content from")
        /\ (fin.files # {} /\ ~ExtractFails /\ ~RulesCompile) =>
              (fout.st = "error" /\ fout.err = "could not replace content from")
        /\ fout.st = "ok" => (fin.files # {} /\ ~ExtractFails /\ RulesCompile)

\* a run of type Code that fails at the last step, the template
FailedRunWritesNothingWitness ==
    /\ fpc = "done" /\ fout.st = "error"
    /\ fout.err = "could not apply template to content from"
    /\ fin.cmd.Type = typeCode
    /\ ~fin.cmd.Start.nil /\ Extracted = <<"x">>

\* what has been written to standard output: Process writes there itself
\* when the document is read from standard input
Stdout == IF fin.stdin THEN out ELSE fout.stdout

\* C23: when processing of a document fails, embed emits nothing of it: a
\* file given as a path is left as it was and nothing is written to standard
\* output, for a document read from standard input too.
NoPartialOutput ==
    (fpc = "done" /\ res = "error") => (Stdout = <<>> /\ fout.file = in)

\* C24: for every relative path or URL p without white space and every
\* language word l, parseCommand on the list of p and l succeeds and returns
\* a command whose path is p and whose language is l, the paths with
\* slashes and the paths whose first directory is named s included.
AnyPathAccepted ==
    fpc = "done" =>
        \A p \in Paths : \A l \in Langs :
            fin = ArgList(<<p, l>>) =>
                (fout.st = "ok" /\ fout.cmd.Path = p /\ fout.cmd.Lang = l)

\* C25: two runs of a command with the same path and the same mounts fetch
\* the same resolved path and return the same result, also when one token is
\* a prefix of another.
MountDeterminism ==
    fpc = "done" => (fout[1].path = fout[2].path /\ fout[1].r = fout[2].r)

\* the reads that a pass can still make: one for each line not yet read and
\* the failed read that ends it
Remaining == (Len(lines) - line) + (IF res = "running" THEN 1 ELSE 0)

\* C26: every step of the scanner reads exactly one new line, the one after
\* the last line read, or ends the pass without reading one; no line is read
\* twice and the line number never passes the number of lines; a pass that
\* is running is in one of the four state functions.  Each step so takes at
\* least one off the reads that remain, which are at most the lines and one
\* when the pass begins: a pass ends after at most that many steps.
ScannerProgress ==
    /\ [](/\ line <= Len(lines)
          /\ Remaining >= 0
          /\ line = 0 => Remaining <= Len(lines) + 1
          /\ res = "running" =>
                state \in {"parsingText", "parsingCmd", "codeParser", "yamlParser"})
    /\ [][pass' = pass =>
            /\ lines' = lines
            /\ Remaining' < Remaining
            /\ \/ line' = line + 1 /\ line < Len(lines)
               \/ line' = line /\ res = "running" /\ res' # "running"]_vars

\* a pass that read every line of a document of MaxLines lines and ended
\* on the failed read after the last
ScannerProgressWitness ==
    /\ pass = 1 /\ res = "ok"
    /\ Len(lines) = MaxLines /\ line = MaxLines
    /\ runs # <<>>

====
